---- MODULE Spec2Model ----
(***************************************************************************)
(* SDI/NDI converter: the frame router (MainWindow), its two capture       *)
(* sources (SDICapture, NDIInput), its two output sinks (NDIOutput,        *)
(* SDIOutput) and the Qt event queue that carries frame and error signals  *)
(* from the delivering threads to the GUI thread.                          *)
(*                                                                         *)
(* Every handler of the GUI thread is one action.  A handler is written as *)
(* an operator from a state record to a state record, so that handlers     *)
(* that call one another (start_conversion calls stop_conversion) compose  *)
(* in the order of the code.  The results of native calls are inputs of    *)
(* the handler (a record env), drawn from small sets.                      *)
(*                                                                         *)
(* The GUI thread runs one handler at a time.  The other threads (the      *)
(* NDIInput loop thread, the DeckLink driver callback thread) only set     *)
(* their own running flag and post events, so a step of theirs inside a    *)
(* handler is modelled as an input of that handler: the last frame a loop  *)
(* emits while stop() waits for it, a frame emitted between a start() and  *)
(* the rollback stop(), and whether the loop thread had begun run() when   *)
(* stop() cleared the flag.                                                *)
(***************************************************************************)
EXTENDS Integers, Sequences, FiniteSets, TLC

\* Bound of the model: events pending in the GUI thread's event queue.
MaxQueue == 1

\* Bound of the model: events pending in the event queue where the queue
\* itself is examined (SpecFrames).
MaxFrames == 2

\* Bound of the model: sources that NDIlib_find_get_current_sources reports.
MaxSources == 2

\* Bound of the model: pixels of a frame.
MaxPixels == 2

\* Bound of the model: calls made on an endpoint that is followed on its own.
MaxCalls == 4

\* Bound of the model: frames passed to the network sink one after another.
MaxSends == 2

VARIABLES
    sdi_capture,            \* MainWindow.sdi_capture (SDICapture)
    ndi_input,              \* MainWindow.ndi_input (NDIInput or None)
    ndi_output,             \* MainWindow.ndi_output (NDIOutput)
    sdi_output,             \* MainWindow.sdi_output (SDIOutput)
    source_preview_input,   \* MainWindow._source_preview_input
    current_input,          \* which attribute current_input refers to
    current_output,         \* which attribute current_output refers to
    input_selector,         \* input_selector.currentText()
    output_selector,        \* output_selector.currentText()
    ndi_source_selector,    \* ndi_source_selector.currentText()
    start_button,           \* start_button.isEnabled()
    stop_button,            \* stop_button.isEnabled()
    events,                 \* queued signal deliveries to the GUI thread
    main_blocked,           \* "" or the source whose wait() never returns
    calls,                  \* the last step's handler, calls and status texts
    last_send,              \* what the last step passed to a sink
    ndi_lib,                \* the NDI library: "loaded", "destroyed", or
                            \* "destroyed_twice" after a second NDIlib_destroy
    probe,                  \* a call of list_sources followed step by step
    controller              \* who calls start/stop: the buttons or a caller

vars == <<sdi_capture, ndi_input, ndi_output, sdi_output, source_preview_input,
          current_input, current_output, input_selector, output_selector,
          ndi_source_selector, start_button, stop_button,
          events, main_blocked, calls, last_send, ndi_lib, probe,
          controller>>

\* The state the handlers work on.
Cur ==
    [sdi_capture |-> sdi_capture, ndi_input |-> ndi_input,
     ndi_output |-> ndi_output, sdi_output |-> sdi_output,
     source_preview_input |-> source_preview_input,
     current_input |-> current_input, current_output |-> current_output,
     input_selector |-> input_selector, output_selector |-> output_selector,
     ndi_source_selector |-> ndi_source_selector,
     start_button |-> start_button, stop_button |-> stop_button,
     events |-> events,
     main_blocked |-> main_blocked, calls |-> calls,
     last_send |-> last_send, ndi_lib |-> ndi_lib, ret |-> FALSE]

Commit(s) ==
    /\ sdi_capture' = s.sdi_capture
    /\ ndi_input' = s.ndi_input
    /\ ndi_output' = s.ndi_output
    /\ sdi_output' = s.sdi_output
    /\ source_preview_input' = s.source_preview_input
    /\ current_input' = s.current_input
    /\ current_output' = s.current_output
    /\ input_selector' = s.input_selector
    /\ output_selector' = s.output_selector
    /\ ndi_source_selector' = s.ndi_source_selector
    /\ start_button' = s.start_button
    /\ stop_button' = s.stop_button
    /\ events' = s.events
    /\ main_blocked' = s.main_blocked
    /\ calls' = s.calls
    /\ last_send' = s.last_send
    /\ ndi_lib' = s.ndi_lib
    /\ probe' = probe
    /\ controller' = controller

NoSend ==
    [sink |-> "None", src |-> "None", outcome |-> "none", preview |-> FALSE]

\* A handler that blocked for good in QThread.wait() runs no further statement:
\* state s stays as it is; otherwise the handler goes on to t.
Then(s, t) == IF s.main_blocked # "" THEN s ELSE t

Log(s, c) == [s EXCEPT !.calls = Append(@, c)]

\* ------------------------------------------------------------------------
\* Objects.  A source: kind ("sdi", "ndi", or "none" for None), handle (the
\* native handle attribute, self.input or self.receiver, is not None),
\* is_running, session (the native session), thread (the QThread of an
\* NDIInput), slot (what frame_ready is connected to).
NoSource ==
    [kind |-> "none", handle |-> FALSE, is_running |-> FALSE,
     session |-> "none", thread |-> "none", slot |-> "none"]

\* config.DECKLINK_MODE: the keys the configuration defines.
DECKLINK_MODE ==
    {"bmdModeHD1080p60", "bmdModeHD1080p59_94", "bmdModeHD1080p50",
     "bmdFormat8BitYUV", "bmdVideoInputFlagDefault", "width", "height"}

\* SDICapture.__init__ / _initialize_decklink: ok is whether every native call
\* succeeded; a failure leaves self.input None.  The error signal is not yet
\* connected when the constructor emits it.
SDICapture_init(ok) ==
    LET keys == {"bmdModeHD1080p60", "bmdFormat8BitYUV", "bmdVideoInputFlagDefault"}
        good == ok /\ keys \subseteq DECKLINK_MODE
    IN  [kind |-> "sdi", handle |-> good, is_running |-> FALSE,
         session |-> IF good THEN "init" ELSE "none",
         thread |-> "none", slot |-> "none"]

\* NDIInput.__init__ / _initialize_ndi: created is NDIlib_recv_create_v2
\* returning a receiver, connected is NDIlib_recv_connect returning true; on
\* any failure self.receiver is None.
NDIInput_init(created, connected) ==
    LET good == created /\ connected
    IN  [kind |-> "ndi", handle |-> good, is_running |-> FALSE,
         session |-> IF good THEN "init" ELSE "none",
         thread |-> "none", slot |-> "none"]

\* NDIOutput.__init__ / _initialize_ndi
NDIOutput_init(ok) ==
    [handle |-> ok, is_running |-> FALSE,
     session |-> IF ok THEN "init" ELSE "none"]

\* SDIOutput.__init__ / _initialize_decklink: the lookup of
\* DECKLINK_MODE['bmdVideoOutputFlagDefault'] raises when the key is missing,
\* and the handler of the exception sets self.output = None.
SDIOutput_init(ok) ==
    LET keys == {"bmdModeHD1080p60", "bmdVideoOutputFlagDefault"}
        good == ok /\ keys \subseteq DECKLINK_MODE
    IN  [handle |-> good, is_running |-> FALSE,
         session |-> IF good THEN "init" ELSE "none"]

\* MainWindow.handle_error: status_label.setText("Error: ..."), print, log.
\* Called directly when the signal is emitted on the GUI thread.
handle_error(s) == Log(s, "handle_error")

\* Qt's event queue has no bound; the model stops queueing at QueueBound.
QueueBound == IF controller = "frames" THEN MaxFrames ELSE MaxQueue

\* A signal emitted on another thread is queued to the GUI thread.
Post(s, e) ==
    IF Len(s.events) < QueueBound THEN [s EXCEPT !.events = Append(@, e)] ELSE s

FrameEvent(slot, src) == [slot |-> slot, src |-> src]

ErrorEvent(src) == [slot |-> "handle_error", src |-> "None"]

\* frame_ready.emit(frame) of the source in attribute a, from its own thread.
\* A frame for the source preview widget (PreviewWidget.update_frame) changes
\* nothing the model holds, so its delivery is not queued here.
EmitFrame(s, a) ==
    IF s[a].slot = "handle_frame" THEN Post(s, FrameEvent(s[a].slot, a)) ELSE s

\* ------------------------------------------------------------------------
\* Sources.  a is the attribute of MainWindow that holds the instance.

\* SDICapture.start: ok is StartStreams() returning 0.
SDICapture_start(s, a, ok) ==
    IF ~s[a].handle THEN [handle_error(s) EXCEPT !.ret = FALSE]
    ELSE IF ok
         THEN [s EXCEPT ![a].session = "running", ![a].is_running = TRUE,
                        !.ret = TRUE]
         ELSE [handle_error(s) EXCEPT !.ret = FALSE]

\* SDICapture.stop: StopStreams() and DisableVideoInput() whenever self.input
\* is set, whatever the session's state.
SDICapture_stop(s, a) ==
    [s EXCEPT ![a].is_running = FALSE,
              ![a].session = IF s[a].handle THEN "stopped" ELSE @]

\* NDIInput.start: QThread.start() returns before run() has begun (thread
\* "started").  early: the loop thread ran and left on a receiver error before
\* start() executed its own is_running = True.
NDIInput_start(s, a, early) ==
    IF ~s[a].handle THEN [handle_error(s) EXCEPT !.ret = FALSE]
    ELSE IF s[a].thread \notin {"started", "loop"}
         THEN IF early
              THEN [Post(s, ErrorEvent(a)) EXCEPT ![a].thread = "finished",
                        ![a].is_running = TRUE, !.ret = TRUE]
              ELSE [s EXCEPT ![a].thread = "started",
                             ![a].is_running = TRUE, !.ret = TRUE]
         ELSE [s EXCEPT !.ret = FALSE]

\* What the loop thread does while NDIInput.stop is inside wait().
WaitOutcomes == {"exit", "exit_frame", "exit_error", "hang"}

\* NDIInput.stop: is_running = False, then wait() while the thread runs.
\*   exit        the loop sees the flag and leaves
\*   exit_frame  it emits one more frame first
\*   exit_error  it leaves on a receiver error, which it reports
\*   hang        run() begins after the flag was cleared, sets it again
\*               (ndi_input.py line 217) and loops on: wait() does not return
NDIInput_stop(s, a, w) ==
    IF s[a].thread \in {"started", "loop"}
    THEN IF w = "hang" /\ s[a].thread = "started"
         THEN [s EXCEPT ![a].is_running = TRUE, ![a].thread = "loop",
                        !.main_blocked = a]
         ELSE LET t == IF w = "exit_frame" THEN EmitFrame(s, a)
                       ELSE IF w = "exit_error" THEN Post(s, ErrorEvent(a))
                       ELSE s
              IN  [t EXCEPT ![a].is_running = FALSE, ![a].thread = "finished"]
    ELSE [s EXCEPT ![a].is_running = FALSE]

Source_start(s, a, env) ==
    IF s[a].kind = "sdi" THEN SDICapture_start(s, a, env.in_ok)
    ELSE NDIInput_start(s, a, env.early)

Source_stop(s, a, env) ==
    IF s[a].kind = "sdi" THEN SDICapture_stop(s, a)
    ELSE NDIInput_stop(s, a, env.wait)

\* ------------------------------------------------------------------------
\* Sinks.

\* NDIOutput.start
NDIOutput_start(s) ==
    IF ~s.ndi_output.handle THEN [handle_error(s) EXCEPT !.ret = FALSE]
    ELSE [s EXCEPT !.ndi_output.is_running = TRUE, !.ret = TRUE]

\* NDIOutput.stop: NDIlib_send_destroy(self.sender); self.sender = None
NDIOutput_stop(s) ==
    [s EXCEPT !.ndi_output.is_running = FALSE,
              !.ndi_output.handle = FALSE,
              !.ndi_output.session =
                  IF s.ndi_output.handle THEN "destroyed" ELSE @]

\* SDIOutput.start: ok is StartScheduledPlayback() returning S_OK.
SDIOutput_start(s, ok) ==
    IF ~s.sdi_output.handle THEN [handle_error(s) EXCEPT !.ret = FALSE]
    ELSE IF ok
         THEN [s EXCEPT !.sdi_output.session = "running",
                        !.sdi_output.is_running = TRUE, !.ret = TRUE]
         ELSE [handle_error(s) EXCEPT !.ret = FALSE]

\* SDIOutput.stop
SDIOutput_stop(s) ==
    [s EXCEPT !.sdi_output.is_running = FALSE,
              !.sdi_output.session =
                  IF s.sdi_output.handle THEN "stopped" ELSE @]

Sink_start(s, env) ==
    IF s.current_output = "ndi_output" THEN NDIOutput_start(s)
    ELSE SDIOutput_start(s, env.out_ok)

Sink_stop(s) ==
    IF s.current_output = "ndi_output" THEN NDIOutput_stop(s)
    ELSE SDIOutput_stop(s)

\* Mutant of send_frame: a send that fails clears the sink's running flag.
send_frame_failure_stops(s, k, e, ok) ==
    LET passed(o) ==
            [s.last_send EXCEPT !.sink = k, !.src = e.src, !.outcome = o]
    IN  IF ~s[k].is_running \/ ~s[k].handle
        THEN [s EXCEPT !.last_send = passed("rejected"), !.ret = FALSE]
        ELSE IF ok
             THEN [s EXCEPT !.last_send = passed("sent"), !.ret = TRUE]
             ELSE [handle_error(s) EXCEPT !.last_send = passed("failed"),
                                          ![k].is_running = FALSE,
                                          !.ret = FALSE]

\* Mutant of send_frame: no guard before the conversion and the native call.
send_frame_unguarded(s, k, e, ok) ==
    LET passed(o) ==
            [s.last_send EXCEPT !.sink = k, !.src = e.src, !.outcome = o]
    IN  IF ok
        THEN [s EXCEPT !.last_send = passed("sent"), !.ret = TRUE]
        ELSE [handle_error(s) EXCEPT !.last_send = passed("failed"),
                                     !.ret = FALSE]

\* NDIOutput.send_frame / SDIOutput.send_frame of the sink in attribute k:
\* the guard, then the conversion and the native call (ok: neither raised).
send_frame(s, k, e, ok) ==
    LET passed(o) ==
            [s.last_send EXCEPT !.sink = k, !.src = e.src, !.outcome = o]
    IN  IF ~s[k].is_running \/ ~s[k].handle
        THEN [s EXCEPT !.last_send = passed("rejected"), !.ret = FALSE]
        ELSE IF ok
             THEN [s EXCEPT !.last_send = passed("sent"), !.ret = TRUE]
             ELSE [handle_error(s) EXCEPT !.last_send = passed("failed"),
                                          !.ret = FALSE]

\* ------------------------------------------------------------------------
\* MainWindow.

\* A conversion endpoint is running: a flag set, a stream started, a loop
\* thread alive.
PipelineLive(s) ==
    \/ \E a \in {"sdi_capture", "ndi_input"} :
           \/ s[a].is_running
           \/ s[a].session = "running"
           \/ s[a].thread \in {"started", "loop"}
    \/ \E k \in {"ndi_output", "sdi_output"} :
           s[k].is_running \/ s[k].session = "running"

\* MainWindow.stop_conversion, lines 292-293
stop_input(s, env) ==
    IF s.current_input # "None"
    THEN Source_stop(Log(s, "in.stop"), s.current_input, env)
    ELSE s

\* MainWindow.stop_conversion, lines 294-295
stop_output(s) ==
    IF s.current_output # "None" THEN Sink_stop(Log(s, "out.stop")) ELSE s

\* MainWindow.stop_conversion, lines 296-298
set_stopped(s) ==
    Log([s EXCEPT !.start_button = TRUE, !.stop_button = FALSE], "label.Stopped")

\* Mutant of stop_conversion: the sink is stopped before the source.
stop_conversion_sink_first(s, env) ==
    LET a == stop_output(s)
        b == Then(a, stop_input(a, env))
    IN  Then(b, set_stopped(b))

\* MainWindow.stop_conversion
stop_conversion(s, env) ==
    LET a == stop_input(s, env)
        b == Then(a, stop_output(a))
    IN  Then(b, set_stopped(b))

\* MainWindow._stop_source_preview: stop() and drop the instance.
stop_source_preview(s, env) ==
    IF s.source_preview_input.kind # "none"
    THEN LET a == Source_stop(Log(s, "prev.stop"), "source_preview_input",
                              [env EXCEPT !.wait = env.wait_prev])
         IN  Then(a, [a EXCEPT !.source_preview_input = NoSource])
    ELSE s

\* MainWindow._start_source_preview
start_source_preview(s, input_type, env) ==
    LET a == stop_source_preview(s, env)
        new(t) ==
            IF input_type = "NDI Input" /\ t.ndi_source_selector # ""
            THEN [NDIInput_init(env.recv # "create_failed", env.recv = "ok")
                      EXCEPT !.slot = "source_preview"]
            ELSE IF input_type = "SDI Capture"
                 THEN [SDICapture_init(env.init_ok) EXCEPT !.slot = "source_preview"]
                 ELSE NoSource
        go(t) ==
            IF new(t).kind = "none" THEN t
            ELSE Source_start(Log([t EXCEPT !.source_preview_input = new(t)],
                                  "prev.start"),
                              "source_preview_input", env)
    IN  Then(a, go(a))

\* NDIInput.list_sources: created is NDIlib_find_create2 returning an
\* instance, announced the names NDIlib_find_get_current_sources returns.
ListPoints == {"create", "sleep", "get", "loop", "cleanup", "except", "done"}

\* What the native discovery calls do in one call of list_sources:
\*   create  NDIlib_find_create2: a handle ("ok"), NULL, or the call raises
\*   get     NDIlib_find_get_current_sources: an array, NULL, or it raises
\*   names   the p_ndi_name of each reported source: a name, "NULL" (no name),
\*           or "BAD" (bytes that decode('utf-8') rejects)
NameKinds == {"Source 1", "Source 2", "NULL", "BAD"}

SeqsUpTo(S, n) == UNION {[1..k -> S] : k \in 0..n}

Discoveries ==
    [create : {"ok", "null", "raise"}, get : {"ok", "null", "raise"},
     names : SeqsUpTo(NameKinds, MaxSources)]

\* No call of list_sources is followed.
NoProbe == [pc |-> "none"]

\* list_sources is entered, line 287.
list_sources_begin(d) ==
    [pc |-> "create", d |-> d, find_instance |-> "none", waits |-> 0, i |-> 1,
     source_list |-> <<>>, result |-> <<>>, raised |-> FALSE]

\* Mutant of list_sources_raise: no except clause, the exception leaves
\* list_sources.
list_sources_raise_propagates(p) ==
    [p EXCEPT !.pc = "done", !.raised = TRUE, !.result = p.source_list]

\* An exception inside the try block goes to `except Exception`, line 329.
list_sources_raise(p) == [p EXCEPT !.pc = "except"]

\* Mutant of list_sources_step: with no source reported, discovery waits
\* again until one appears.
list_sources_step_waits_for_source(p) ==
    CASE p.pc = "create" ->
           IF p.d.create = "raise" THEN list_sources_raise(p)
           ELSE IF p.d.create = "null" THEN [p EXCEPT !.pc = "done"]
           ELSE [p EXCEPT !.find_instance = "created", !.pc = "sleep"]
      [] p.pc = "sleep" ->
           [p EXCEPT !.waits = IF @ < 2 THEN @ + 1 ELSE @, !.pc = "get"]
      [] p.pc = "get" ->
           IF p.d.get = "raise" THEN list_sources_raise(p)
           ELSE IF p.d.get = "null" \/ p.d.names = <<>>
                THEN [p EXCEPT !.pc = "sleep"]
                ELSE [p EXCEPT !.pc = "loop"]
      [] p.pc = "loop" ->
           IF p.i > Len(p.d.names) THEN [p EXCEPT !.pc = "cleanup"]
           ELSE IF p.d.names[p.i] = "BAD" THEN list_sources_raise(p)
           ELSE [p EXCEPT !.i = @ + 1,
                          !.source_list =
                              Append(@, IF p.d.names[p.i] = "NULL"
                                        THEN "Unknown" ELSE p.d.names[p.i])]
      [] p.pc = "cleanup" ->
           [p EXCEPT !.find_instance = "destroyed",
                     !.result = p.source_list, !.pc = "done"]
      [] p.pc = "except" ->
           [p EXCEPT !.result = <<>>, !.pc = "done"]
      [] OTHER -> p

\* One statement of list_sources.
list_sources_step(p) ==
    CASE p.pc = "create" ->                                  \* lines 297-300
           IF p.d.create = "raise" THEN list_sources_raise(p)
           ELSE IF p.d.create = "null" THEN [p EXCEPT !.pc = "done"]
           ELSE [p EXCEPT !.find_instance = "created", !.pc = "sleep"]
      [] p.pc = "sleep" ->                                   \* line 303
           [p EXCEPT !.waits = @ + 1, !.pc = "get"]
      [] p.pc = "get" ->                                     \* lines 308-313
           IF p.d.get = "raise" THEN list_sources_raise(p)
           ELSE IF p.d.get = "null"
                THEN [p EXCEPT !.find_instance = "destroyed", !.pc = "done"]
                ELSE [p EXCEPT !.pc = "loop"]
      [] p.pc = "loop" ->                                    \* lines 317-322
           IF p.i > Len(p.d.names) THEN [p EXCEPT !.pc = "cleanup"]
           ELSE IF p.d.names[p.i] = "BAD" THEN list_sources_raise(p)
           ELSE [p EXCEPT !.i = @ + 1,
                          !.source_list =
                              Append(@, IF p.d.names[p.i] = "NULL"
                                        THEN "Unknown" ELSE p.d.names[p.i])]
      [] p.pc = "cleanup" ->                                 \* lines 326-327
           [p EXCEPT !.find_instance = "destroyed",
                     !.result = p.source_list, !.pc = "done"]
      [] p.pc = "except" ->                                  \* lines 329-332
           [p EXCEPT !.result = <<>>, !.pc = "done"]
      [] OTHER -> p

RECURSIVE list_sources_run(_)
list_sources_run(p) ==
    IF p.pc = "done" THEN p ELSE list_sources_run(list_sources_step(p))

\* NDIInput.list_sources: the call from its entry to its return.
list_sources(d) == list_sources_run(list_sources_begin(d))

\* MainWindow._on_input_type_changed
on_input_type_changed(s, input_type, env) ==
    LET a == stop_source_preview([s EXCEPT !.input_selector = input_type], env)
        found == list_sources(env.find)
        sources == found.result
        ndi(t) ==
            IF ~env.lib_ok
            THEN [handle_error(t) EXCEPT
                      !.ndi_source_selector = "NDI initialization failed"]
            ELSE IF found.raised
                 THEN [handle_error(t) EXCEPT
                           !.ndi_source_selector = "Error listing sources"]
                 ELSE [t EXCEPT !.ndi_source_selector =
                           IF sources # <<>> THEN sources[1]
                           ELSE "No NDI sources found"]
    IN  Then(a, IF input_type = "NDI Input" THEN ndi(a)
                ELSE start_source_preview(a, "SDI Capture", env))

\* MainWindow._on_preview_clicked
on_preview_clicked(s, env) ==
    IF /\ s.input_selector = "NDI Input"
       /\ s.ndi_source_selector # ""
       /\ s.ndi_source_selector # "No NDI sources found"
    THEN start_source_preview(s, "NDI Input", env)
    ELSE s

\* MainWindow.start_conversion, lines 243-259: ret is FALSE on a return.
select_input(s, env) ==
    IF s.input_selector = "SDI Capture"
    THEN [s EXCEPT !.current_input = "sdi_capture", !.ret = TRUE]
    ELSE IF s.ndi_source_selector = "No NDI sources found"
         THEN [handle_error(s) EXCEPT !.ret = FALSE]
         ELSE [s EXCEPT
                   !.ndi_input = NDIInput_init(env.recv # "create_failed",
                                               env.recv = "ok"),
                   !.current_input = "ndi_input", !.ret = TRUE]

\* MainWindow.start_conversion, lines 261-266
select_output(s) ==
    [s EXCEPT !.current_output =
         IF s.output_selector = "NDI Output" THEN "ndi_output" ELSE "sdi_output"]

\* MainWindow.start_conversion, lines 272-277
connect_handle_frame(s) ==
    Log([s EXCEPT ![s.current_input].slot = "handle_frame"], "connect")

\* The source emits a frame between its start() and the rollback stop().
EmitTransient(s) ==
    LET a == s.current_input
    IN  IF s[a].kind = "ndi" /\ s[a].thread = "started"
        THEN EmitFrame([s EXCEPT ![a].thread = "loop"], a)
        ELSE IF s[a].is_running THEN EmitFrame(s, a) ELSE s

\* Mutant of start_endpoints: the sink is started whatever source.start()
\* returned.
start_endpoints_sink_anyway(s, env) ==
    LET a == Source_start(Log(s, "in.start"), s.current_input, env)
        b == Sink_start(Log(Log(a, IF a.ret THEN "in.ok" ELSE "in.fail"),
                            "out.start"), env)
    IN  IF a.ret /\ b.ret
        THEN Log([Log(b, "out.ok") EXCEPT !.start_button = FALSE,
                                          !.stop_button = TRUE],
                 "label.Running")
        ELSE Log(b, "label.Failed to start input")

\* MainWindow.start_conversion, lines 279-288
start_endpoints(s, env) ==
    LET pre == IF PipelineLive(s) THEN Log(s, "live") ELSE s
        a == Source_start(Log(pre, "in.start"), s.current_input, env)
        b == Sink_start(Log(Log(a, "in.ok"), "out.start"), env)
        c == IF env.transient THEN EmitTransient(b) ELSE b
        d == Source_stop(Log(Log(c, "out.fail"), "in.stop"), s.current_input,
                         [env EXCEPT !.wait = env.wait_rb])
    IN  IF ~a.ret
        THEN Log(Log(a, "in.fail"), "label.Failed to start input")
        ELSE IF b.ret
             THEN Log([Log(b, "out.ok") EXCEPT !.start_button = FALSE,
                                               !.stop_button = TRUE],
                      "label.Running")
             ELSE Then(d, Log(d, "label.Failed to start output"))

\* Mutant of start_conversion: no stop_conversion() before the new endpoints
\* are selected and started.
start_conversion_no_stop(s, env) ==
    LET z == IF s.stop_button /\ ~s.start_button THEN Log(s, "was_running") ELSE s
        b == stop_source_preview(Log(z, "label.Starting..."), env)
        rest(t) ==
            LET i == select_input(t, env)
            IN  IF ~i.ret THEN i
                ELSE start_endpoints(connect_handle_frame(select_output(i)), env)
    IN  Then(b, rest(b))

\* MainWindow.start_conversion
start_conversion(s, env) ==
    LET z == IF s.stop_button /\ ~s.start_button THEN Log(s, "was_running") ELSE s
        a == stop_conversion(Log(z, "label.Starting..."), env)
        b == Then(a, stop_source_preview(a, env))
        rest(t) ==
            LET i == select_input(t, env)
            IN  IF ~i.ret THEN i
                ELSE start_endpoints(connect_handle_frame(select_output(i)), env)
    IN  Then(b, rest(b))

\* MainWindow.closeEvent: stop_conversion(), then NDIlib_destroy(); the source
\* preview is not stopped.
closeEvent(s, env) ==
    LET a == stop_conversion(s, env)
    IN  Then(a, [a EXCEPT !.ndi_lib = "destroyed"])

\* Mutant of handle_frame: the handler takes the sink from the output
\* selector, writing current_output while it delivers a frame.
handle_frame_selects_output(s, e, ok) ==
    LET p == [select_output(s) EXCEPT !.last_send.preview = TRUE]
    IN  send_frame(p, p.current_output, e, ok)

\* MainWindow.handle_frame: preview.update_frame(frame), then
\* current_output.send_frame(frame).
handle_frame(s, e, ok) ==
    LET p == [s EXCEPT !.last_send.preview = TRUE]
    IN  IF s.current_output = "None" THEN p
        ELSE send_frame(p, s.current_output, e, ok)

\* ------------------------------------------------------------------------
\* Inputs of the handlers: the results of the native calls and the steps of
\* the other threads that fall inside the handler.
DefaultEnv ==
    [wait |-> "exit", wait_prev |-> "exit", wait_rb |-> "exit", in_ok |-> TRUE, out_ok |-> TRUE, recv |-> "ok",
     early |-> FALSE, transient |-> FALSE, lib_ok |-> TRUE,
     find |-> [create |-> "ok", get |-> "ok", names |-> <<"Source 1">>],
     init_ok |-> TRUE, sender_ok |-> TRUE]

RecvOutcomes == {"ok", "create_failed", "connect_failed"}

\* Only the inputs a handler can read in state s are drawn: the outcome of a
\* wait() when that loop thread is alive, a receiver when one is created, the
\* result of a DeckLink call when one is made.
WaitsOf(s, a) ==
    IF a = "None" THEN {"exit"}
    ELSE IF s[a].thread = "started" THEN WaitOutcomes
    ELSE IF s[a].thread = "loop" THEN WaitOutcomes \ {"hang"}
    ELSE {"exit"}

EnvInit ==
    {[DefaultEnv EXCEPT !.init_ok = i, !.sender_ok = n, !.in_ok = k] :
        i \in BOOLEAN, n \in BOOLEAN, k \in BOOLEAN}

EnvStop(s) ==
    {[DefaultEnv EXCEPT !.wait = w] : w \in WaitsOf(s, s.current_input)}

\* The sink selected in s has a handle that the implicit stop will not release.
SinkCanStart(s) ==
    /\ s.output_selector = "NDI Output"
    /\ s.ndi_output.handle
    /\ s.current_output # "ndi_output"

EnvStartInput(s, b) ==
    IF s.input_selector = "SDI Capture"
    THEN {[b EXCEPT !.in_ok = k, !.transient = x] :
             k \in BOOLEAN, x \in IF SinkCanStart(s) THEN {FALSE} ELSE BOOLEAN}
    ELSE {[b EXCEPT !.recv = r] : r \in RecvOutcomes \ {"ok"}}
         \cup {[b EXCEPT !.early = TRUE]}
         \cup IF SinkCanStart(s) THEN {b}
              ELSE {[b EXCEPT !.transient = x, !.wait_rb = w] :
                       x \in BOOLEAN, w \in WaitOutcomes}

EnvStart(s) ==
    UNION {EnvStartInput(s, [DefaultEnv EXCEPT !.wait = w, !.wait_prev = p]) :
              w \in WaitsOf(s, s.current_input),
              p \in WaitsOf(s, "source_preview_input")}

EnvInputChanged(s) ==
    UNION {IF s.input_selector = "SDI Capture"
           THEN {[DefaultEnv EXCEPT !.wait_prev = p, !.lib_ok = FALSE]}
                \cup {[DefaultEnv EXCEPT !.wait_prev = p, !.find = d] :
                         d \in {[create |-> "ok", get |-> "ok",
                                  names |-> <<"Source 1">>],
                                 [create |-> "ok", get |-> "null",
                                  names |-> <<>>],
                                 [create |-> "null", get |-> "ok",
                                  names |-> <<>>]}}
           ELSE {[DefaultEnv EXCEPT !.wait_prev = p, !.init_ok = i, !.in_ok = k] :
                    i \in BOOLEAN, k \in BOOLEAN} :
           p \in WaitsOf(s, "source_preview_input")}

EnvPreview(s) ==
    {[DefaultEnv EXCEPT !.wait_prev = p, !.recv = r, !.early = e] :
        p \in WaitsOf(s, "source_preview_input"), r \in RecvOutcomes,
        e \in BOOLEAN}

\* MainWindow.__init__: the modules, the error signals, and the first call of
\* _on_input_type_changed for the default selection.
MainWindow_init(env) ==
    on_input_type_changed(
        [sdi_capture |-> SDICapture_init(env.init_ok),
         ndi_input |-> NoSource,
         ndi_output |-> NDIOutput_init(env.sender_ok),
         sdi_output |-> SDIOutput_init(env.init_ok),
         source_preview_input |-> NoSource,
         current_input |-> "None", current_output |-> "None",
         input_selector |-> "SDI Capture", output_selector |-> "NDI Output",
         ndi_source_selector |-> "",
         start_button |-> TRUE, stop_button |-> FALSE,
         events |-> <<>>, main_blocked |-> "",
         calls |-> <<"__init__">>, last_send |-> NoSend,
         ndi_lib |-> "loaded",
         ret |-> FALSE],
        "SDI Capture", env)

\* The window's state is s.
Installed(s) ==
    /\ sdi_capture = s.sdi_capture
    /\ ndi_input = s.ndi_input
    /\ ndi_output = s.ndi_output
    /\ sdi_output = s.sdi_output
    /\ source_preview_input = s.source_preview_input
    /\ current_input = s.current_input
    /\ current_output = s.current_output
    /\ input_selector = s.input_selector
    /\ output_selector = s.output_selector
    /\ ndi_source_selector = s.ndi_source_selector
    /\ start_button = s.start_button
    /\ stop_button = s.stop_button
    /\ events = s.events
    /\ main_blocked = s.main_blocked
    /\ calls = s.calls
    /\ last_send = s.last_send
    /\ ndi_lib = s.ndi_lib

InitWith(c) ==
    /\ controller = c
    /\ probe = NoProbe
    /\ \E env \in EnvInit : Installed(MainWindow_init(env))

\* A control handler begins: the ghost log of the step starts with its name.
Begin(ctl) == [Cur EXCEPT !.calls = <<ctl>>, !.last_send = NoSend]

\* A step that is no control handler.
Other == [Cur EXCEPT !.calls = <<>>, !.last_send = NoSend]

\* ------------------------------------------------------------------------
\* Actions of the GUI thread.

\* The Start button (enabled), or a caller of start_conversion.
StartConversion ==
    /\ ndi_lib = "loaded"
    /\ main_blocked = ""
    /\ controller = "api" \/ start_button
    /\ \E env \in EnvStart(Cur) : Commit(start_conversion(Begin("start_conversion"), env))

\* The Stop button (enabled), or a caller of stop_conversion.
StopConversion ==
    /\ ndi_lib = "loaded"
    /\ main_blocked = ""
    /\ controller = "api" \/ stop_button
    /\ \E env \in EnvStop(Cur) : Commit(stop_conversion(Begin("stop_conversion"), env))

\* input_selector.currentIndexChanged
InputTypeChanged ==
    /\ ndi_lib = "loaded"
    /\ main_blocked = ""
    /\ \E t \in {"SDI Capture", "NDI Input"} \ {input_selector} :
       \E env \in EnvInputChanged(Cur) :
           Commit(on_input_type_changed(Begin("_on_input_type_changed"), t, env))

\* The output selector has no handler.
OutputTypeChanged ==
    /\ ndi_lib = "loaded"
    /\ main_blocked = ""
    /\ \E t \in {"NDI Output", "SDI Output"} \ {output_selector} :
           Commit([Other EXCEPT !.output_selector = t])

\* The Preview button, shown while the input type is NDI Input.
PreviewClicked ==
    /\ ndi_lib = "loaded"
    /\ main_blocked = ""
    /\ input_selector = "NDI Input"
    /\ \E env \in EnvPreview(Cur) : Commit(on_preview_clicked(Begin("_on_preview_clicked"), env))

\* The window is closed; with it the application leaves its event loop, so
\* no step is followed after it.
CloseEvent ==
    /\ ndi_lib = "loaded"
    /\ main_blocked = ""
    /\ \E env \in EnvStop(Cur) : Commit(closeEvent(Begin("closeEvent"), env))

\* main of app.py, lines 29-35: app.exec() returns once the window has been
\* closed, and main calls NDIlib_destroy, ndi_lib being the loaded library.
app_main_exit(s) ==
    [s EXCEPT !.ndi_lib = IF @ = "loaded" THEN "destroyed"
                          ELSE "destroyed_twice"]

MainReturn ==
    /\ ndi_lib = "destroyed"
    /\ Commit(app_main_exit(Begin("main")))

\* The event loop delivers the oldest queued signal to its slot.
DeliverEvent ==
    /\ ndi_lib = "loaded"
    /\ main_blocked = ""
    /\ events # <<>>
    /\ \E ok \in IF Head(events).slot = "handle_frame" THEN BOOLEAN ELSE {TRUE} :
         LET e == Head(events)
             s == [Other EXCEPT !.events = Tail(@)]
         IN  Commit(IF e.slot = "handle_frame" THEN handle_frame(s, e, ok)
                    ELSE IF e.slot = "handle_error" THEN handle_error(s)
                    ELSE s)

\* ------------------------------------------------------------------------
\* Actions of the other threads.

SourceAttrs == {"sdi_capture", "ndi_input", "source_preview_input"}

\* VideoFrameCallback.VideoInputFrameArrived -> SDICapture._handle_frame, on
\* the driver's thread while the streams run.
SdiFrameArrived(a) ==
    /\ ndi_lib = "loaded"
    /\ Cur[a].kind = "sdi"
    /\ Cur[a].session = "running"
    /\ Cur[a].is_running
    /\ Len(events) < QueueBound
    /\ Commit(EmitFrame(Other, a))

\* NDIInput.run, lines 213-218
NdiRunBegin(a) ==
    /\ ndi_lib = "loaded"
    /\ Cur[a].kind = "ndi"
    /\ Cur[a].thread = "started"
    /\ Commit([Other EXCEPT ![a].is_running = TRUE, ![a].thread = "loop"])

\* NDIInput.run, lines 220-248: one iteration that receives a video frame.
NdiFrameReceived(a) ==
    /\ ndi_lib = "loaded"
    /\ Cur[a].kind = "ndi"
    /\ Cur[a].thread = "loop"
    /\ Cur[a].is_running
    /\ Len(events) < QueueBound
    /\ Commit(EmitFrame(Other, a))

\* NDIInput.run, lines 250-257: a receiver error ends the loop.
NdiReceiverError(a) ==
    /\ ndi_lib = "loaded"
    /\ Cur[a].kind = "ndi"
    /\ Cur[a].thread = "loop"
    /\ Cur[a].is_running
    /\ main_blocked # a
    /\ Commit([Post(Other, ErrorEvent(a)) EXCEPT
                   ![a].is_running = FALSE, ![a].thread = "finished"])

Next ==
    \/ StartConversion
    \/ StopConversion
    \/ InputTypeChanged
    \/ OutputTypeChanged
    \/ PreviewClicked
    \/ CloseEvent
    \/ MainReturn
    \/ DeliverEvent
    \/ \E a \in SourceAttrs : SdiFrameArrived(a)
    \/ \E a \in SourceAttrs : NdiRunBegin(a)
    \/ \E a \in SourceAttrs : NdiFrameReceived(a)
    \/ \E a \in SourceAttrs : NdiReceiverError(a)

\* The application: start_conversion and stop_conversion run when their
\* button is enabled and clicked.
Init == InitWith("ui")

Spec == Init /\ [][Next]_vars

\* The window operated as in Spec, followed with a deeper event queue.
InitFrames == InitWith("frames")

SpecFrames == InitFrames /\ [][Next]_vars

\* The router's methods called by any caller, whatever the buttons' state.
InitApi == InitWith("api")

\* A caller calls start() once more on the source that is running.
source_start_again(s, env) ==
    LET a == Source_start(Log(s, "in.start"), s.current_input, env)
    IN  Log(a, IF a.ret THEN "in.ok" ELSE "in.fail")

SourceStartAgain ==
    /\ ndi_lib = "loaded"
    /\ main_blocked = ""
    /\ controller = "api"
    /\ current_input # "None"
    /\ Cur[current_input].is_running
    /\ \E k \in BOOLEAN :
           Commit(source_start_again(Begin("start"),
                                     [DefaultEnv EXCEPT !.in_ok = k]))

NextApi == Next \/ SourceStartAgain

SpecApi == InitApi /\ [][NextApi]_vars

\* ------------------------------------------------------------------------
\* NDIInput.list_sources on its own: one call, for every behaviour of the
\* native discovery calls, followed statement by statement.

InitDiscovery ==
    /\ controller = "none"
    /\ Installed(MainWindow_init(DefaultEnv))
    /\ \E d \in Discoveries : probe = list_sources_begin(d)

ListSourcesStep ==
    /\ probe.pc \in ListPoints \ {"done"}
    /\ probe' = list_sources_step(probe)
    /\ UNCHANGED <<sdi_capture, ndi_input, ndi_output, sdi_output,
                   source_preview_input, current_input, current_output,
                   input_selector, output_selector, ndi_source_selector,
                   start_button, stop_button, events, main_blocked, calls,
                   last_send, ndi_lib, controller>>

NextDiscovery == ListSourcesStep

\* The calling thread keeps running: a statement that can run does run.
SpecDiscovery ==
    InitDiscovery /\ [][NextDiscovery]_vars /\ WF_vars(ListSourcesStep)

\* ------------------------------------------------------------------------
\* Pixel data on the network path: NDIOutput.send_frame converts a BGR frame
\* and fills the frame descriptor it hands to NDIlib_send_send_video_v2;
\* NDIInput.run converts the descriptor NDIlib_recv_capture_v2 filled.  A
\* frame is a numpy array: its shape, its strides in bytes and its bytes in
\* row-major order.

\* Values of one 8-bit channel: both ends of the range and one in between.
ChannelValues == {0, 127, 255}

\* The frame shapes (height, width) of at most MaxPixels pixels.
Shapes ==
    {p \in (1..MaxPixels) \X (1..MaxPixels) : p[1] * p[2] <= MaxPixels}

\* A C-contiguous uint8 array of the given shape that owns its bytes, as
\* cv2.cvtColor returns: base says whose memory the bytes are.
ndarray(h, w, c, d) ==
    [shape |-> <<h, w, c>>, strides |-> <<w * c, c, 1>>, data |-> d,
     base |-> "own"]

\* np.frombuffer(buffer, dtype=np.uint8) followed by reshape((h, w, c)): a
\* view of the buffer's memory, no copy.
frombuffer(h, w, c, d) == [ndarray(h, w, c, d) EXCEPT !.base = "buffer"]

\* The canonical BGR frames of shape p that handle_frame passes to a sink.
BgrFrames(p) ==
    {ndarray(p[1], p[2], 3, d) : d \in [1..(p[1] * p[2] * 3) -> ChannelValues]}

NoFrame ==
    [shape |-> <<0, 0, 0>>, strides |-> <<0, 0, 0>>, data |-> <<>>,
     base |-> "own"]

\* cv2.COLOR_BGR2BGRA: every pixel keeps B, G, R and gets alpha 255.
COLOR_BGR2BGRA(frame) ==
    LET h == frame.shape[1]
        w == frame.shape[2]
    IN  ndarray(h, w, 4,
                [i \in 1..(h * w * 4) |->
                    IF i % 4 = 0
                    THEN 255
                    ELSE frame.data[((i - 1) \div 4) * 3 + (i % 4)]])

\* cv2.COLOR_BGRA2RGB: alpha dropped, first and third channel exchanged.
COLOR_BGRA2RGB(frame) ==
    LET h == frame.shape[1]
        w == frame.shape[2]
    IN  ndarray(h, w, 3,
                [i \in 1..(h * w * 3) |->
                    frame.data[((i - 1) \div 3) * 4 + (3 - ((i - 1) % 3))]])

\* cv2.COLOR_BGRA2BGR: every pixel keeps B, G, R and loses alpha.
COLOR_BGRA2BGR(frame) ==
    LET h == frame.shape[1]
        w == frame.shape[2]
    IN  ndarray(h, w, 3,
                [i \in 1..(h * w * 3) |->
                    frame.data[((i - 1) \div 3) * 4 + ((i - 1) % 3) + 1]])

NoVideoFrame ==
    [xres |-> 0, yres |-> 0, FourCC |-> "None", p_data |-> <<>>,
     line_stride_in_bytes |-> 0]

\* The descriptor send_frame fills (lines 139-155): the size and the row
\* stride are those of the BGR argument, the data is the BGRA conversion.
send_video_frame(frame) ==
    LET bgra == COLOR_BGR2BGRA(frame)
    IN  [xres                 |-> frame.shape[2],
         yres                 |-> frame.shape[1],
         FourCC               |-> "BGRA",
         p_data               |-> bgra.data,
         line_stride_in_bytes |-> frame.strides[1]]

\* What NDIlib_recv_capture_v2 fills for a BGRA picture of the given bytes:
\* rows of xres * 4 bytes, each followed by pad bytes the library may add.
recv_capture(xres, yres, bgra, pad) ==
    LET row == xres * 4 + pad
    IN  [xres                 |-> xres,
         yres                 |-> yres,
         FourCC               |-> "BGRA",
         p_data               |-> [i \in 1..(yres * row) |->
                                      IF (i - 1) % row < xres * 4
                                      THEN bgra[((i - 1) \div row) * xres * 4
                                                + ((i - 1) % row) + 1]
                                      ELSE 0],
         line_stride_in_bytes |-> row]

\* Lines 232-246 of NDIInput.run: the yres * line_stride_in_bytes bytes of
\* the descriptor are reshaped to (yres, xres, 4), and reshape raises when
\* the sizes disagree; the exception becomes an error message.
recv_video_frame(video_frame) ==
    LET n == video_frame.yres * video_frame.line_stride_in_bytes
        np_frame == SubSeq(video_frame.p_data, 1, n)
    IN  IF n # video_frame.yres * video_frame.xres * 4
        THEN [bgr_frame |-> NoFrame, error |-> "Error processing NDI frame"]
        ELSE [bgr_frame |-> COLOR_BGRA2BGR(frombuffer(video_frame.yres,
                                                      video_frame.xres, 4,
                                                      np_frame)),
              error     |-> ""]

\* The sender's memory: the arrays cv2.cvtColor returned, in the order of
\* their allocation; a buffer's number is its place in the sequence.
NoBuffer == [live |-> FALSE, data |-> <<>>]

\* Mutant of allocate: the conversion writes into the one buffer the sink
\* keeps, the bytes of the earlier frame replaced in place.
allocate_in_place(heap, data) ==
    IF heap = <<>>
    THEN <<[live |-> TRUE, data |-> data]>>
    ELSE [heap EXCEPT ![1] = [live |-> TRUE, data |-> data]]

\* bgra = cv2.cvtColor(frame, cv2.COLOR_BGR2BGRA), line 141: called without
\* a destination, cvtColor returns a newly allocated array.
allocate(heap, data) == Append(heap, [live |-> TRUE, data |-> data])

\* send_frame returns, lines 158-159: bgra was its local variable, and the
\* array is freed with the last reference to it.
release(heap, b) == [heap EXCEPT ![b] = NoBuffer]

InitPixel ==
    /\ controller = "none"
    /\ Installed(MainWindow_init(DefaultEnv))
    /\ probe = [pc |-> "idle", frame |-> NoFrame, sent |-> NoVideoFrame,
                 captured |-> NoVideoFrame, bgr_frame |-> NoFrame,
                 error |-> "", recv_buffer |-> "none", emitted |-> FALSE,
                 heap |-> <<>>, p_buffer |-> 0, buffers |-> <<>>]

PixelUnchanged ==
    UNCHANGED <<sdi_capture, ndi_input, ndi_output, sdi_output,
                source_preview_input, current_input, current_output,
                input_selector, output_selector, ndi_source_selector,
                start_button, stop_button, events, main_blocked, calls,
                last_send, ndi_lib, controller>>

\* send_frame(frame) past its guard, up to the native send call.
SendVideo ==
    /\ probe.pc = "idle"
    /\ Len(probe.buffers) < MaxSends
    /\ \E p \in Shapes : \E frame \in BgrFrames(p) :
         LET heap == allocate(probe.heap, COLOR_BGR2BGRA(frame).data)
         IN  probe' = [probe EXCEPT !.pc = "sent",
                                    !.frame = frame,
                                    !.sent = send_video_frame(frame),
                                    !.heap = heap,
                                    !.p_buffer = Len(heap),
                                    !.buffers = Append(@, Len(heap))]
    /\ PixelUnchanged

\* NDIlib_send_send_video_v2 has returned and send_frame returns TRUE, lines
\* 158-159: the frame, the descriptor and the converted array go with the
\* call.
SendReturn ==
    /\ probe.pc = "sent"
    /\ probe' = [probe EXCEPT !.pc = "idle",
                              !.frame = NoFrame,
                              !.sent = NoVideoFrame,
                              !.heap = release(@, probe.p_buffer),
                              !.p_buffer = 0]
    /\ PixelUnchanged

\* The picture reaches a receiver, in dense rows or in padded ones.
CaptureVideo ==
    /\ probe.pc = "sent"
    /\ \E pad \in {0, 4} :
           probe' = [probe EXCEPT
                        !.pc = "captured",
                        !.recv_buffer = "held",
                        !.captured = recv_capture(
                                         probe.sent.xres, probe.sent.yres,
                                         probe.heap[probe.p_buffer].data,
                                         pad)]
    /\ PixelUnchanged

\* The receiver thread converts what it captured (lines 232-241).
ReceiveVideo ==
    /\ probe.pc = "captured"
    /\ LET r == recv_video_frame(probe.captured)
       IN  probe' = [probe EXCEPT !.pc = "received",
                                  !.bgr_frame = r.bgr_frame,
                                  !.error = r.error]
    /\ PixelUnchanged

\* frame_ready.emit(bgr_frame), line 243: the last statement of the try
\* block, reached when nothing before it raised.
EmitVideo ==
    /\ probe.pc = "received"
    /\ probe.error = ""
    /\ probe' = [probe EXCEPT !.pc = "emitted", !.emitted = TRUE]
    /\ PixelUnchanged

\* NDIlib_recv_free_video_v2 in the finally clause, lines 247-248: after the
\* try block has ended, by the emit or by the except clause.
FreeVideo ==
    /\ \/ probe.pc = "emitted"
       \/ probe.pc = "received" /\ probe.error # ""
    /\ probe' = [probe EXCEPT !.pc = "freed", !.recv_buffer = "released"]
    /\ PixelUnchanged

NextPixel ==
    \/ SendVideo
    \/ SendReturn
    \/ CaptureVideo
    \/ ReceiveVideo
    \/ EmitVideo
    \/ FreeVideo

SpecPixel == InitPixel /\ [][NextPixel]_vars

\* ------------------------------------------------------------------------
\* The hardware sink on its own: one SDIOutput from its construction, with
\* the calls start(), send_frame(frame) and stop() made on it in any order.
\* probe holds the instance, whether every native DeckLink call made so far
\* returned success (healthy), the calls made, and the display time of every
\* frame passed to ScheduleVideoFrame.

\* SDIOutput.send_frame, lines 121-157.  created: CreateVideoFrame returned a
\* frame; scheduled: ScheduleVideoFrame returned S_OK.  The arguments of
\* CreateVideoFrame are evaluated first, and the lookup of a key that
\* DECKLINK_MODE does not define raises; every exception ends in the except
\* clause.  times is extended by the display time of a ScheduleVideoFrame
\* call, which line 149 gives as 0.
SDIOutput_send_frame(o, times, created, scheduled) ==
    LET keys == {"width", "height", "bmdFormat8BitYUV", "bmdFrameFlagDefault"}
    IN  IF ~o.is_running \/ ~o.handle
        THEN [times |-> times, ret |-> FALSE, error |-> FALSE]
        ELSE IF ~(keys \subseteq DECKLINK_MODE) \/ ~created
             THEN [times |-> times, ret |-> FALSE, error |-> TRUE]
             ELSE [times |-> Append(times, 0), ret |-> scheduled,
                   error |-> ~scheduled]

\* The part of the window's state that SDIOutput's methods work on.
SdiOutState(o) == [sdi_output |-> o, calls |-> <<>>, ret |-> FALSE]

InitSdiOut ==
    /\ controller = "none"
    /\ Installed(MainWindow_init(DefaultEnv))
    /\ \E ok \in BOOLEAN :
           probe = [pc |-> "sdi_output", sdi_output |-> SDIOutput_init(ok),
                    healthy |-> ok, started |-> FALSE, sends |-> 0,
                    times |-> <<>>, log |-> <<>>]

\* start() is called; ok is StartScheduledPlayback returning S_OK.
SdiOutStart ==
    /\ probe.pc = "sdi_output"
    /\ Len(probe.log) < MaxCalls
    /\ \E ok \in BOOLEAN :
         LET r == SDIOutput_start(SdiOutState(probe.sdi_output), ok)
         IN  probe' = [probe EXCEPT
                          !.sdi_output = r.sdi_output,
                          !.healthy = @ /\ ok,
                          !.started = TRUE,
                          !.sends = 0,
                          !.times = <<>>,
                          !.log = Append(@, <<"start", r.ret>>)]
    /\ PixelUnchanged

\* send_frame(frame) is called with a frame.
SdiOutSend ==
    /\ probe.pc = "sdi_output"
    /\ Len(probe.log) < MaxCalls
    /\ \E created \in BOOLEAN, scheduled \in BOOLEAN :
         LET r == SDIOutput_send_frame(probe.sdi_output, probe.times,
                                       created, scheduled)
         IN  probe' = [probe EXCEPT
                          !.healthy = @ /\ created /\ scheduled,
                          !.sends = IF probe.started THEN @ + 1 ELSE @,
                          !.times = r.times,
                          !.log = Append(@, <<"send_frame", r.ret>>)]
    /\ PixelUnchanged

\* stop() is called.
SdiOutStop ==
    /\ probe.pc = "sdi_output"
    /\ Len(probe.log) < MaxCalls
    /\ LET r == SDIOutput_stop(SdiOutState(probe.sdi_output))
       IN  probe' = [probe EXCEPT
                        !.sdi_output = r.sdi_output,
                        !.started = FALSE,
                        !.log = Append(@, <<"stop", FALSE>>)]
    /\ PixelUnchanged

NextSdiOut == SdiOutStart \/ SdiOutSend \/ SdiOutStop

SpecSdiOut == InitSdiOut /\ [][NextSdiOut]_vars

\* ------------------------------------------------------------------------
\* The import of the two NDI modules by main.py (lines 13-14), statement by
\* statement: each module loads the NDI DLL inside a try block that leaves
\* ndi_lib None on failure, and then, outside any try block, sets the
\* prototypes of the functions it uses as attributes of ndi_lib.

\* The functions whose prototypes ndi_output.py sets, lines 62-76.
NdiOutputPrototypes ==
    <<"NDIlib_initialize", "NDIlib_send_create", "NDIlib_send_send_video_v2",
      "NDIlib_send_destroy", "NDIlib_destroy">>

\* The functions whose prototypes ndi_input.py sets, lines 86-116.
NdiInputPrototypes ==
    <<"NDIlib_find_create2", "NDIlib_recv_create_v2", "NDIlib_recv_capture_v2",
      "NDIlib_recv_free_video_v2", "NDIlib_recv_destroy", "NDIlib_initialize",
      "NDIlib_find_destroy", "NDIlib_find_wait_for_sources",
      "NDIlib_find_get_current_sources", "NDIlib_recv_connect">>

\* The statements of the two imports in their order: the load of the DLL,
\* then one prototype after the other.
ImportStatements ==
    <<[module |-> "ndi_output", fn |-> "load"]>>
    \o [i \in DOMAIN NdiOutputPrototypes |->
           [module |-> "ndi_output", fn |-> NdiOutputPrototypes[i]]]
    \o <<[module |-> "ndi_input", fn |-> "load"]>>
    \o [i \in DOMAIN NdiInputPrototypes |->
           [module |-> "ndi_input", fn |-> NdiInputPrototypes[i]]]

\* The DLL on the machine: not there, there but refused by the loader, or
\* loaded; and the one function it does not export, if any.
DllStates == {"missing", "unloadable", "loaded"}

Exports ==
    {"all"} \cup {NdiOutputPrototypes[i] : i \in DOMAIN NdiOutputPrototypes}
            \cup {NdiInputPrototypes[i] : i \in DOMAIN NdiInputPrototypes}

import_begin(dll, absent) ==
    [pc |-> "importing", at |-> 1, dll |-> dll, absent |-> absent,
     lib |-> [ndi_output |-> "unset", ndi_input |-> "unset"],
     raised |-> ""]

\* One statement of the imports.  The load catches every exception and
\* leaves ndi_lib None (ndi_output.py 20-29, ndi_input.py 22-35); a
\* prototype statement reads an attribute of ndi_lib, which raises
\* AttributeError when ndi_lib is None or the DLL does not export the
\* function, and nothing catches it.
import_step(p) ==
    LET st == ImportStatements[p.at]
        next == IF p.at = Len(ImportStatements)
                THEN [p EXCEPT !.pc = "imported"]
                ELSE [p EXCEPT !.at = @ + 1]
    IN  IF st.fn = "load"
        THEN [next EXCEPT !.lib[st.module] =
                 IF p.dll = "loaded" THEN "loaded" ELSE "None"]
        ELSE IF p.lib[st.module] = "None" \/ p.absent = st.fn
             THEN [p EXCEPT !.pc = "raised", !.raised = "AttributeError"]
             ELSE next

InitImport ==
    /\ controller = "none"
    /\ Installed(MainWindow_init(DefaultEnv))
    /\ \E dll \in DllStates, absent \in Exports :
           probe = import_begin(dll, absent)

ImportStep ==
    /\ probe.pc = "importing"
    /\ probe' = import_step(probe)
    /\ PixelUnchanged

NextImport == ImportStep

SpecImport == InitImport /\ [][NextImport]_vars

\* ------------------------------------------------------------------------
\* The hardware source on its own, statement by statement: start() and
\* stop() called on one thread while the driver calls the frame callback on
\* its own thread.  probe holds the instance (input, is_running), whether the
\* driver is streaming, where each thread is, and for every frame event
\* emitted the value is_running had at the emit.

InitCapture ==
    /\ controller = "none"
    /\ Installed(MainWindow_init(DefaultEnv))
    /\ \E ok \in BOOLEAN :
           probe = [pc |-> "capture", input |-> SDICapture_init(ok).handle,
                    is_running |-> FALSE, streams |-> FALSE,
                    caller |-> "idle", driver |-> "idle", n |-> 0,
                    dropped |-> 0, emitted |-> <<>>]

\* start(), lines 173-179: without an input it returns False; StartStreams
\* is called, and its failure returns False.
CaptureStartStreams ==
    /\ probe.pc = "capture"
    /\ probe.caller = "idle"
    /\ probe.n < MaxCalls
    /\ \E ok \in BOOLEAN :
           probe' = [probe EXCEPT
                        !.n = @ + 1,
                        !.streams = IF probe.input /\ ok THEN TRUE ELSE @,
                        !.caller = IF probe.input /\ ok THEN "start" ELSE @]
    /\ PixelUnchanged

\* start(), lines 181-182: self.is_running = True; return True.
CaptureStartFlag ==
    /\ probe.pc = "capture"
    /\ probe.caller = "start"
    /\ probe' = [probe EXCEPT !.is_running = TRUE, !.caller = "idle"]
    /\ PixelUnchanged

\* stop(), lines 191-192: self.is_running = False, before any native call.
CaptureStopFlag ==
    /\ probe.pc = "capture"
    /\ probe.caller = "idle"
    /\ probe.n < MaxCalls
    /\ probe' = [probe EXCEPT
                    !.n = @ + 1,
                    !.is_running = FALSE,
                    !.caller = IF probe.input THEN "stop" ELSE @]
    /\ PixelUnchanged

\* stop(), lines 193-197: StopStreams() and DisableVideoInput(); stop
\* returns.
CaptureStopStreams ==
    /\ probe.pc = "capture"
    /\ probe.caller = "stop"
    /\ probe' = [probe EXCEPT !.streams = FALSE, !.caller = "idle"]
    /\ PixelUnchanged

\* The driver, streaming, calls VideoInputFrameArrived on its thread
\* (sdi_capture.py 78-96): the frame is converted and passed to
\* _handle_frame.
DriverFrameArrived ==
    /\ probe.pc = "capture"
    /\ probe.streams
    /\ probe.driver = "idle"
    /\ probe.n < MaxCalls
    /\ probe' = [probe EXCEPT !.n = @ + 1, !.driver = "arrived"]
    /\ PixelUnchanged

\* _handle_frame, line 168: if self.is_running.
DriverCheck ==
    /\ probe.pc = "capture"
    /\ probe.driver = "arrived"
    /\ probe' = [probe EXCEPT
                    !.driver = IF probe.is_running THEN "checked" ELSE "idle",
                    !.dropped = IF probe.is_running THEN @ ELSE @ + 1]
    /\ PixelUnchanged

\* _handle_frame, line 169: self.frame_ready.emit(frame).
DriverEmit ==
    /\ probe.pc = "capture"
    /\ probe.driver = "checked"
    /\ probe' = [probe EXCEPT
                    !.driver = "idle",
                    !.emitted = Append(@, [is_running |-> probe.is_running,
                                           caller     |-> probe.caller,
                                           streams    |-> probe.streams])]
    /\ PixelUnchanged

NextCapture ==
    \/ CaptureStartStreams
    \/ CaptureStartFlag
    \/ CaptureStopFlag
    \/ CaptureStopStreams
    \/ DriverFrameArrived
    \/ DriverCheck
    \/ DriverEmit

SpecCapture == InitCapture /\ [][NextCapture]_vars

\* ------------------------------------------------------------------------
\* The network sources start_conversion constructs one after the other
\* (main.py 254-256), with _initialize_ndi followed statement by statement.
\* probe holds the native receivers created so far ("live" or "destroyed"),
\* the receiver field of the instance under construction (0 is None) and of
\* the instance the window holds.

ReceiverEnvs == [lib_ok : BOOLEAN, created : BOOLEAN, connected : BOOLEAN]

InitReceiver ==
    /\ controller = "none"
    /\ Installed(MainWindow_init(DefaultEnv))
    /\ probe = [pc |-> "receiver", at |-> "idle", n |-> 0,
                 env |-> [lib_ok |-> TRUE, created |-> TRUE,
                          connected |-> TRUE],
                 receiver |-> 0, held |-> 0, natives |-> <<>>]

\* NDIInput(ndi_source_name=...) is called, main.py 254; __init__ sets
\* self.receiver = None and calls _initialize_ndi (ndi_input.py 147-159).
ReceiverNew ==
    /\ probe.pc = "receiver"
    /\ probe.at = "idle"
    /\ probe.n < MaxCalls
    /\ \E env \in ReceiverEnvs :
           probe' = [probe EXCEPT !.at = "initialize", !.n = @ + 1,
                                  !.env = env, !.receiver = 0]
    /\ PixelUnchanged

\* One statement of _initialize_ndi, lines 161-209.
initialize_ndi_step(p) ==
    CASE p.at = "initialize" ->                              \* lines 166-169
           [p EXCEPT !.at = IF p.env.lib_ok THEN "create" ELSE "except"]
      [] p.at = "create" ->                                  \* lines 186-190
           IF p.env.created
           THEN [p EXCEPT !.natives = Append(@, "live"),
                          !.receiver = Len(p.natives) + 1,
                          !.at = "connect"]
           ELSE [p EXCEPT !.at = "except"]
      [] p.at = "connect" ->                                 \* lines 199-203
           [p EXCEPT !.at = IF p.env.connected THEN "assign" ELSE "except"]
      [] p.at = "except" ->                                  \* lines 204-209
           [p EXCEPT !.receiver = 0, !.at = "assign"]
      [] OTHER -> p

InitializeNdiStep ==
    /\ probe.pc = "receiver"
    /\ probe.at \in {"initialize", "create", "connect", "except"}
    /\ probe' = initialize_ndi_step(probe)
    /\ PixelUnchanged

\* NDIInput.__del__, lines 277-282, on the instance whose receiver field is
\* r: the receiver is destroyed when the field is set.
NDIInput_del(natives, r) ==
    IF r # 0 THEN [natives EXCEPT ![r] = "destroyed"] ELSE natives

\* self.ndi_input and self.current_input are bound to the new instance
\* (main.py 254-256): the instance they held has no reference left and its
\* __del__ runs.
ReceiverAssign ==
    /\ probe.pc = "receiver"
    /\ probe.at = "assign"
    /\ probe' = [probe EXCEPT !.at = "idle",
                              !.natives = NDIInput_del(@, probe.held),
                              !.held = probe.receiver,
                              !.receiver = 0]
    /\ PixelUnchanged

NextReceiver == ReceiverNew \/ InitializeNdiStep \/ ReceiverAssign

SpecReceiver == InitReceiver /\ [][NextReceiver]_vars

\* ------------------------------------------------------------------------
\* Properties.

\* The router is Running from a successful start (lines 281-283) to the next
\* stop_conversion (lines 296-297), and Idle otherwise.
Running == stop_button /\ ~start_button

Idle == start_button /\ ~stop_button

\* The last step ran control handler h to its end.
Ran(h) == calls # <<>> /\ calls[1] = h /\ main_blocked = ""

Has(c) == \E i \in DOMAIN calls : calls[i] = c

\* Every c in the log comes before every d.
Before(c, d) ==
    \A i, j \in DOMAIN calls : calls[i] = c /\ calls[j] = d => i < j

SourceAlive(o) ==
    o.is_running \/ o.session = "running" \/ o.thread \in {"started", "loop"}

SinkAlive(o) == o.is_running \/ o.session = "running"

\* What stop_conversion can change of the router and its endpoints.
View(s) ==
    <<s.sdi_capture, s.ndi_input, s.ndi_output, s.sdi_output,
      s.current_input, s.current_output, s.start_button, s.stop_button>>

\* C1: after start() and then stop() the router is Idle, no
\* endpoint of the session holds a native handle and no loop thread runs.
C1_NoHandleAfterStop ==
    Ran("stop_conversion") =>
        /\ Idle
        /\ ~Cur[current_input].handle
        /\ ~Cur[current_output].handle
        /\ ~SourceAlive(Cur[current_input])

\* C2: a start() that directly follows a stop() (of a session that ran), whose
\* source starts and whose sink is the NDI sink that was created at
\* construction, succeeds: the router is Running.
C2_RestartSucceeds ==
    [][(/\ Ran("stop_conversion")
        /\ ndi_output.session # "none"
        /\ output_selector = "NDI Output"
        /\ calls' # <<>> /\ calls'[1] = "start_conversion"
        /\ \E i \in DOMAIN calls' : calls'[i] = "in.ok")
       => (stop_button' /\ ~start_button')]_vars

\* C3: a start() called while the router is Running first stops the old
\* source and the old sink, and only then starts an endpoint; no conversion
\* endpoint is alive when the new source is started.
C3_StopBeforeStart ==
    (calls # <<>> /\ calls[1] = "start_conversion" /\ Has("was_running")) =>
        /\ Has("in.stop")
        /\ calls[3] = "label.Starting..." /\ calls[4] = "in.stop"
        /\ main_blocked = "" => calls[5] = "out.stop"
        /\ \A i \in DOMAIN calls :
               calls[i] \in {"in.start", "out.start"} => i > 5
        /\ ~Has("live")

\* C3 witness: the router was Running and the new source has been started.
C3_Witness ==
    /\ Ran("start_conversion")
    /\ Has("was_running")
    /\ Has("in.ok")

C5_StopAfterFailedStartIsNoop ==
    (Ran("start_conversion") /\ current_input = "ndi_input" /\ Has("in.fail")) =>
        /\ Idle
        /\ \A env \in EnvStop(Cur) : View(stop_conversion(Cur, env)) = View(Cur)

\* C6: stop() twice leaves what the first stop() left, and stop() of an Idle
\* router changes neither the router nor an endpoint.
C6_StopIdempotent ==
    main_blocked = "" =>
        /\ \A e1 \in EnvStop(Cur) :
               LET s1 == stop_conversion(Cur, e1)
               IN  s1.main_blocked = "" =>
                       \A e2 \in EnvStop(s1) :
                           View(stop_conversion(s1, e2)) = View(s1)
        /\ Idle => \A env \in EnvStop(Cur) :
                       View(stop_conversion(Cur, env)) = View(Cur)

\* C7: when source.start() fails, sink.start() is not called, the failure is
\* reported and the router is Idle with no conversion endpoint running.
C7_SourceFailureSkipsSink ==
    (calls # <<>> /\ calls[1] = "start_conversion" /\ Has("in.fail")) =>
        /\ main_blocked = ""
        /\ ~Has("out.start")
        /\ Has("label.Failed to start input")
        /\ Idle
        /\ ~PipelineLive(Cur)

\* C7 witness: a start() whose source failed to start.
C7_Witness == Ran("start_conversion") /\ Has("in.fail") /\ Has("handle_error")

\* C8: when sink.start() fails after source.start() succeeded, the source is
\* stopped, the failure is reported and the router is Idle with the source no
\* longer running.
C8_SinkFailureRollsBack ==
    (calls # <<>> /\ calls[1] = "start_conversion" /\ Has("out.fail")) =>
        /\ Has("in.stop")
        /\ Has("label.Failed to start output")
        /\ Idle
        /\ ~PipelineLive(Cur)

\* C9: at most one source (the source preview's included) and at most one
\* sink are active.
C9_OneSourceOneSink ==
    /\ Cardinality({a \in SourceAttrs : SourceAlive(Cur[a])}) <= 1
    /\ Cardinality({k \in {"ndi_output", "sdi_output"} : SinkAlive(Cur[k])}) <= 1

C11_NdiStopReturns ==
    \A a \in SourceAttrs :
        Cur[a].kind = "ndi" =>
            ~(main_blocked = a /\ Cur[a].thread = "loop" /\ Cur[a].is_running)

\* C12: while the router is Running, at most one frame emitted by the active
\* source awaits forwarding by handle_frame: the source emits no further
\* frame before the forwarding of the previous one has returned.
C12_OneFrameInFlight ==
    Running =>
        Cardinality({i \in DOMAIN events :
                        /\ events[i].slot = "handle_frame"
                        /\ events[i].src = current_input}) <= 1

\* C13: a send that fails does not stop the session: the step in which
\* send_frame fails leaves the sink's running flag and handle, every source
\* and the router as they were, the output preview has been given the frame,
\* and the sink is still running with its handle, so that the next frame is
\* forwarded in the same way.
C13_FailedSendKeepsSession ==
    [][last_send'.outcome = "failed" =>
          /\ View(Cur)' = View(Cur)
          /\ source_preview_input' = source_preview_input
          /\ last_send'.preview
          /\ current_output' # "None"
          /\ Cur[current_output].is_running' /\ Cur[current_output].handle'
          /\ main_blocked' = ""]_vars

\* C13 witness: a send failed while the router is Running.
C13_Witness ==
    /\ last_send.outcome = "failed"
    /\ last_send.preview
    /\ Running
    /\ SourceAlive(Cur[current_input])

\* C14: the NDI library is destroyed only when no network receive loop (of
\* the conversion source or of the source preview) is running and no sender
\* created from it is in use.
C14_DestroyOnlyWhenUnused ==
    ndi_lib = "destroyed" =>
        /\ \A a \in SourceAttrs :
               Cur[a].kind = "ndi" => Cur[a].thread \notin {"started", "loop"}
        /\ ~(ndi_output.is_running /\ ndi_output.handle)

\* A native discovery call failed, or a reported name could not be decoded,
\* in the call of list_sources that is followed.
DiscoveryFailed ==
    \/ probe.d.create # "ok"
    \/ probe.d.get # "ok"
    \/ \E k \in DOMAIN probe.d.names : probe.d.names[k] = "BAD"

\* C15: list_sources never raises to its caller, and when a native discovery
\* call fails or an announced name cannot be decoded it returns the empty
\* list.
C15_DiscoveryNeverRaises ==
    probe.pc = "done" =>
        /\ ~probe.raised
        /\ DiscoveryFailed => probe.result = <<>>

\* C15 witness: a call returned the empty list after the second reported name
\* could not be decoded, the first one already collected.
C15_Witness ==
    /\ probe.pc = "done"
    /\ probe.d.create = "ok" /\ probe.d.get = "ok"
    /\ Len(probe.d.names) = 2 /\ probe.d.names[2] = "BAD"
    /\ Len(probe.source_list) = 1
    /\ probe.result = <<>>

\* C16: list_sources always terminates; it waits once at most, and when no
\* endpoint is announcing it returns the empty list.
C16_DiscoveryTerminates ==
    /\ <>(probe.pc = "done")
    /\ [](probe.waits <= 1)
    /\ []((probe.pc = "done" /\ probe.d.names = <<>>) => probe.result = <<>>)

\* C16 witness: a call with no endpoint announcing has returned the empty
\* list after its one wait.
C16_Witness ==
    /\ probe.pc = "done"
    /\ probe.d.create = "ok" /\ probe.d.get \in {"ok", "null"}
    /\ probe.d.names = <<>>
    /\ probe.waits = 1
    /\ probe.result = <<>>

\* C17: whenever start() of a source or of a sink returns failure, the
\* component's error signal has reached handle_error during that call.
C17_FailedStartReports ==
    \A i \in DOMAIN calls :
        calls[i] \in {"in.fail", "out.fail"} =>
            i > 1 /\ calls[i - 1] = "handle_error"

\* C18: a BGR frame converted to BGRA as NDIOutput.send_frame converts it
\* has an opaque alpha in every pixel, and converting those bytes back as
\* NDIInput.run converts them gives a frame of the same shape with exactly
\* the original B, G and R bytes.  The receiver emits that frame whenever
\* the rows it captured are dense, and emits nothing otherwise.
C18_RoundTripExact ==
    probe.pc = "received" =>
        /\ \A i \in 1..Len(probe.sent.p_data) :
               i % 4 = 0 => probe.sent.p_data[i] = 255
        /\ IF probe.captured.line_stride_in_bytes = probe.captured.xres * 4
           THEN /\ probe.error = ""
                /\ probe.bgr_frame = probe.frame
           ELSE probe.error # "" /\ probe.bgr_frame = NoFrame

\* A two-pixel frame whose first pixel has three different channel values
\* went through both conversions.
C18_Witness ==
    /\ probe.pc = "received"
    /\ probe.error = ""
    /\ Len(probe.frame.data) = 6
    /\ probe.frame.data[1] = 0
    /\ probe.frame.data[2] = 127
    /\ probe.frame.data[3] = 255
    /\ probe.frame.data[4] = 255

\* C20: every descriptor NDIOutput.send_frame hands to the native send call
\* has a row stride of at least four bytes per pixel of its width, and a
\* buffer of at least stride times height bytes.
C20_DescriptorWellFormed ==
    probe.pc \in {"sent", "captured", "received"} =>
        /\ probe.sent.line_stride_in_bytes >= probe.sent.xres * 4
        /\ Len(probe.sent.p_data) >=
               probe.sent.line_stride_in_bytes * probe.sent.yres

\* C21: handle_frame is subscribed to the source's frame_ready only once
\* source.start() and sink.start() have both succeeded (the connection comes
\* after the sink's start in the order of the calls), and a start_conversion
\* in which either start failed does not leave handle_frame subscribed to the
\* source it selected.
C21_SubscribedAfterBothStarts ==
    (calls # <<>> /\ calls[1] = "start_conversion" /\ Has("connect")) =>
        /\ Before("in.start", "connect")
        /\ Before("out.start", "connect")
        /\ (Has("in.fail") \/ Has("out.fail")) =>
               Cur[current_input].slot # "handle_frame"

\* C22: every frame that handle_frame passes to the running sink was emitted
\* by the source that is the current input: a frame event of a source that
\* was active before, still pending when that source was stopped and
\* replaced, does not reach the sink of the new pipeline.
C22_OnlyFramesOfActiveSource ==
    last_send.outcome \in {"sent", "failed"} => last_send.src = current_input

\* The chain Uninitialized -> Initialized -> Running -> Stopped -> Destroyed,
\* in the names the endpoints' session field uses.
SessionChain == <<"none", "init", "running", "stopped", "destroyed">>

\* Session b is session a or comes later in the chain: what a handler that
\* makes several native calls may do to a session in one step.
SessionFollows(a, b) ==
    \E i, j \in DOMAIN SessionChain :
        SessionChain[i] = a /\ SessionChain[j] = b /\ i <= j

\* C23: the native session of every endpoint that lives as long as the
\* window (DeckLink input, DeckLink output, NDI sender) only moves forward
\* along the chain, so that no start() takes a Stopped or Destroyed session
\* back to Running, and the stop() that stop_conversion applies to a DeckLink
\* input holding its native interface finds the session Running.
C23_SessionsFollowChain ==
    [][/\ \A o \in {"sdi_capture", "sdi_output", "ndi_output"} :
              SessionFollows(Cur[o].session, Cur[o].session')
       /\ (/\ calls' # <<>>
           /\ calls'[1] \in {"start_conversion", "stop_conversion", "closeEvent"}
           /\ current_input # "None"
           /\ Cur[current_input].kind = "sdi"
           /\ Cur[current_input].handle)
          => Cur[current_input].session = "running"]_vars

\* C24: current_input and current_output are written only by a step of
\* start_conversion, and a step in which handle_frame's send reaches the
\* native call writes neither: the sink it used is the current output of
\* before and after the step, it was running with its handle when the step
\* began, and it still holds that handle when the step ends.
C24_RouterWritesSerialized ==
    [][/\ (current_input' # current_input \/ current_output' # current_output)
          => (calls' # <<>> /\ calls'[1] = "start_conversion")
       /\ last_send'.outcome \in {"sent", "failed"}
          => /\ current_input' = current_input
             /\ current_output' = current_output
             /\ last_send'.sink = current_output
             /\ Cur[current_output].is_running /\ Cur[current_output].handle
             /\ Cur[current_output].handle']_vars

\* C24 witness: a frame was delivered to the native send of the running sink
\* while the router is Running.
C24_Witness ==
    /\ last_send.outcome = "sent"
    /\ last_send.sink = current_output
    /\ Running
    /\ Cur[current_output].is_running /\ Cur[current_output].handle

\* C25: in the loop of the network source, when the frame event of a
\* received video frame is emitted the library's buffer has already been
\* released with NDIlib_recv_free_video_v2, and the emitted frame owns its
\* bytes: it is no view of the library's buffer.
C25_ReleasedBeforeEmit ==
    probe.emitted =>
        /\ probe.recv_buffer = "released"
        /\ probe.bgr_frame.base = "own"

C27_StrideAwareConversion ==
    probe.pc = "freed" =>
        /\ probe.error = ""
        /\ probe.emitted
        /\ probe.bgr_frame = probe.frame

\* C28: every discovery handle list_sources creates is destroyed before the
\* call returns, on every path, the exception path included.
C28_DiscoveryHandleDestroyed ==
    probe.pc = "done" => probe.find_instance # "created"

\* C29: while the native send call of the network sink has not returned, the
\* converted buffer the descriptor points at is allocated and holds the bytes
\* it held when the descriptor was built; and the buffer of every
\* send_frame call is a new one, not the buffer of an earlier frame.
C29_BufferHeldForTheCall ==
    /\ probe.p_buffer # 0 =>
           /\ probe.p_buffer \in DOMAIN probe.heap
           /\ probe.heap[probe.p_buffer].live
           /\ probe.heap[probe.p_buffer].data = probe.sent.p_data
    /\ \A i, j \in DOMAIN probe.buffers :
           i < j => probe.buffers[i] # probe.buffers[j]

\* C29 witness: the second frame is inside the native send call, in a buffer
\* of its own, the buffer of the first frame freed when its call returned.
C29_Witness ==
    /\ probe.pc = "sent"
    /\ Len(probe.buffers) = 2
    /\ probe.p_buffer = probe.buffers[2]
    /\ probe.heap[probe.p_buffer].live
    /\ ~probe.heap[probe.buffers[1]].live

\* C30: the NDI library is destroyed once per process: NDIlib_destroy is not
\* called again on a library that has been destroyed.
C30_DestroyedOnce ==
    ndi_lib # "destroyed_twice"

\* C31: when loading the NDI DLL fails, the import of the NDI source and
\* sink modules does not raise: the application keeps running with ndi_lib
\* None.
C31_ImportSurvivesLoadFailure ==
    probe.dll # "loaded" => probe.pc # "raised"

\* C32: the hardware source emits a frame event only while its running flag
\* is true, under every interleaving of the driver's callback with start()
\* and stop(): every frame event was emitted with is_running true, and none
\* after stop() had returned.
C32_EmitsOnlyWhileRunning ==
    \A i \in DOMAIN probe.emitted :
        /\ probe.emitted[i].is_running
        /\ probe.emitted[i].streams

\* C33: whenever the router reports Running, the active source is still
\* delivering: its running flag is true and, for the network source, its
\* loop thread is alive; a receive loop that left by itself on a receiver
\* error does not leave the router in Running.
C33_RunningImpliesSourceAlive ==
    (Running /\ current_input # "None") =>
        /\ Cur[current_input].is_running
        /\ Cur[current_input].kind = "ndi" =>
               Cur[current_input].thread \in {"started", "loop"}

\* The entries _on_input_type_changed puts into the source selector when it
\* has no discovered name to show (main.py 156, 164, 178, 186).
Placeholders ==
    {"No NDI sources found", "NDI library not loaded",
     "NDI initialization failed", "Error listing sources"}

\* C34: start_conversion and the Preview action create a network source only
\* for a name that discovery returned: the name they pass, the selector's
\* current text, is none of the placeholder entries.
C34_NoPlaceholderAsSourceName ==
    /\ (/\ calls # <<>>
        /\ calls[1] = "start_conversion"
        /\ Has("connect")
        /\ current_input = "ndi_input")
       => ndi_source_selector \notin Placeholders
    /\ (/\ calls # <<>>
        /\ calls[1] = "_on_preview_clicked"
        /\ Has("prev.start")
        /\ source_preview_input.kind = "ndi")
       => ndi_source_selector \notin Placeholders

\* C35: no native receiver is lost: every receiver that was created and has
\* not been destroyed is referenced by an instance, the one under
\* construction or the one the window holds, so that __del__ destroys it
\* later.
C35_ReceiverNotLost ==
    \A r \in DOMAIN probe.natives :
        probe.natives[r] = "live" => r \in {probe.receiver, probe.held}

\* C36: on a device whose native calls all succeed the hardware sink
\* initializes, every start() returns success, and a send_frame(frame) after
\* start() returns success: no lookup of a configuration constant fails.
C36_HealthySinkStarts ==
    probe.healthy =>
        /\ probe.sdi_output.handle
        /\ \A i \in DOMAIN probe.log :
               probe.log[i][1] = "start" => probe.log[i][2]
        /\ (/\ probe.started
            /\ probe.log # <<>>
            /\ probe.log[Len(probe.log)][1] = "send_frame")
           => probe.log[Len(probe.log)][2]

====
